---- MODULE Spec2Model ----
(***************************************************************************)
(* RowSetTree (src/tablet/rowset_tree.cc): the range-lookup index of a     *)
(* tablet.  Reset partitions the rowsets into bounded entries (kept in an  *)
(* interval tree) and unbounded rowsets, and sorts the range endpoints;    *)
(* FindRowSetsWithKeyInRange and FindRowSetsIntersectingInterval read the  *)
(* finished index.                                                         *)
(***************************************************************************)
EXTENDS Integers, Sequences, FiniteSets, TLC

\* ---------------------------------------------------------------- bounds
MaxInput       == 2   \* longest RowSetVector given to Reset
NumMemRowSets  == 2   \* rowsets whose GetBounds answers NotSupported
NumUnreadable  == 2   \* rowsets whose GetBounds fails
NumReaders     == 2   \* concurrent reader threads

Readers == 1..NumReaders

\* the encoded keys: the empty key, a key, an extension of it, and a key
\* with a larger first byte ("" < "\0" < "\0\1" < "\1")
Keys == {<< >>, <<0>>, <<0, 1>>, <<1>>}

\* ------------------------------------------------------- sequence helpers
Range(s) == {s[i] : i \in DOMAIN s}

CountIn(s, x) == Cardinality({i \in DOMAIN s : s[i] = x})

RemoveFirst(s, x) ==
  LET i == CHOOSE k \in DOMAIN s : s[k] = x /\ \A j \in 1..(k - 1) : s[j] # x
  IN  SubSeq(s, 1, i - 1) \o SubSeq(s, i + 1, Len(s))

\* every order in which the elements of s can be laid out
RECURSIVE Orderings(_)
Orderings(s) ==
  IF s = << >> THEN {<< >>}
  ELSE UNION {{<<x>> \o p : p \in Orderings(RemoveFirst(s, x))} : x \in Range(s)}

\* ------------------------------------------------------------ Slice order
\* Slice::compare: memcmp over the common prefix, then the shorter one first
RECURSIVE Slice_compare(_, _)
Slice_compare(a, b) ==
  IF a = << >> THEN (IF b = << >> THEN 0 ELSE -1)
  ELSE IF b = << >> THEN 1
  ELSE IF a[1] < b[1] THEN -1
  ELSE IF a[1] > b[1] THEN 1
  ELSE Slice_compare(Tail(a), Tail(b))

\* RowSetIntervalTraits::compare
compare(a, b) == Slice_compare(a, b)

\* Slice::Comparator: strict "less than" on slices
Comparator(a, b) == Slice_compare(a, b) < 0

RSEndpointBySliceCompare_reversed(a, b) == Comparator(b.slice_, a.slice_)

RSEndpointBySliceCompare(a, b) == Comparator(a.slice_, b.slice_)

\* std::sort with RSEndpointBySliceCompare: not a stable sort, so every
\* arrangement that is ordered by the comparator is a possible outcome
RECURSIVE std_sort(_)
std_sort(v) ==
  IF v = << >> THEN {<< >>}
  ELSE LET first == {x \in Range(v) :
                       \A y \in Range(v) : ~RSEndpointBySliceCompare(y, x)}
       IN  UNION {{<<x>> \o p : p \in std_sort(RemoveFirst(v, x))} : x \in first}

\* ----------------------------------------------------------------- RowSet
OkStatus == [code |-> "OK", msg |-> 0]

\* what GetBounds of a rowset can answer: its (inclusive) bounds, the
\* NotSupported of a MemRowSet, or a failure
GetBoundsOutcomes ==
  {[status |-> OkStatus, min_key |-> p[1], max_key |-> p[2]] :
      p \in {k \in Keys \X Keys : Slice_compare(k[1], k[2]) <= 0}}
  \cup {[status |-> [code |-> "NotSupported", msg |-> 0],
         min_key |-> << >>, max_key |-> << >>],
        [status |-> [code |-> "IOError", msg |-> 0],
         min_key |-> << >>, max_key |-> << >>]}

\* the RowSet objects, each with the answer its GetBounds gives at every
\* call: one rowset per key range, the MemRowSets, the unreadable rowsets
RowSets ==
  {[id |-> i, bounds |-> b] :
      i \in 1..NumMemRowSets,
      b \in {o \in GetBoundsOutcomes : o.status.code = "NotSupported"}}
  \cup {[id |-> i, bounds |-> b] :
      i \in 1..NumUnreadable,
      b \in {o \in GetBoundsOutcomes : o.status.code = "IOError"}}
  \cup {[id |-> 1, bounds |-> b] :
      b \in {o \in GetBoundsOutcomes : o.status.code = "OK"}}

\* rs->GetBounds(&min_key, &max_key); a failure names the rowset
GetBounds(rs) ==
  IF rs.bounds.status.code = "IOError"
  THEN [rs.bounds EXCEPT !.status.msg = rs.id]
  ELSE rs.bounds

RECURSIVE VectorsOfLen(_, _)
VectorsOfLen(S, n) ==
  IF n = 0 THEN {<< >>}
  ELSE {Append(v, rs) : v \in VectorsOfLen(S, n - 1), rs \in S}

\* every RowSetVector a caller can hand to Reset (repetitions included)
RowSetVectors == UNION {VectorsOfLen(RowSets, n) : n \in 0..MaxInput}

IsNotSupported(s) == s.code = "NotSupported"

ok_always(s) == TRUE

ok(s) == s.code = "OK"

\* --------------------------------------------------- RowSetIntervalTraits
get_left(rs) == rs.min_key

get_right_bug(rs) == rs.min_key

get_right(rs) == rs.max_key

\* ------------------------------------------------------------ IntervalTree
NullTree == [built |-> FALSE, intervals |-> << >>]

IntervalTree(intervals) == [built |-> TRUE, intervals |-> intervals]

\* intervals that contain the point (closed at both ends), in any order
FindContainingPoint(tree, point) ==
  LET Hit(e) == /\ compare(get_left(e), point) <= 0
                /\ compare(point, get_right(e)) <= 0
  IN  Orderings(SelectSeq(tree.intervals, Hit))

\* intervals that overlap the closed query interval, in any order
FindIntersectingInterval(tree, query) ==
  LET Hit(e) == /\ compare(get_left(e), get_right(query)) <= 0
                /\ compare(get_right(e), get_left(query)) >= 0
  IN  Orderings(SelectSeq(tree.intervals, Hit))

\* ------------------------------------------------------------------ state
VARIABLES
  initted_, entries_, unbounded_rowsets_, tree_, key_endpoints_, all_rowsets_,
  pc,                  \* position of the Reset call: "idle", "loop", "L103".."L108"
  rowsets,             \* Reset's argument
  idx,                 \* position of BOOST_FOREACH in rowsets
  entries, unbounded, endpoints,   \* Reset's local vectors
  ret,                 \* Status returned by the last finished Reset
  crashed,             \* a CHECK / DCHECK has aborted the process
  q,                   \* the last query of the single-threaded caller
  rd                   \* reader thread -> its query in progress

index == <<initted_, entries_, unbounded_rowsets_, tree_, key_endpoints_,
           all_rowsets_>>
frame == <<pc, rowsets, idx, entries, unbounded, endpoints, ret>>
vars  == <<initted_, entries_, unbounded_rowsets_, tree_,
           key_endpoints_, all_rowsets_, pc, rowsets, idx, entries, unbounded,
           endpoints, ret, crashed, q, rd>>

NoStatus == [code |-> "none", msg |-> 0]
NoQuery  == [op |-> "none", lo |-> << >>, hi |-> << >>, out |-> << >>]
IdleReader == [pc |-> "idle", op |-> "none", lo |-> << >>, hi |-> << >>,
               out |-> << >>]

\* RowSetTree::RowSetTree()
Init ==
  /\ initted_ = FALSE
  /\ entries_ = << >>
  /\ unbounded_rowsets_ = << >>
  /\ tree_ = NullTree
  /\ key_endpoints_ = << >>
  /\ all_rowsets_ = << >>
  /\ pc = "idle"
  /\ rowsets = << >>
  /\ idx = 1
  /\ entries = << >>
  /\ unbounded = << >>
  /\ endpoints = << >>
  /\ ret = NoStatus
  /\ crashed = FALSE
  /\ q = NoQuery
  /\ rd = [r \in Readers |-> IdleReader]

\* ------------------------------------------------------------------ Reset
CHECK_not_initted_off == TRUE

CHECK_not_initted == ~initted_

\* Reset(rowsets): the CHECK passes, the local vectors are created
ResetCall(callers) ==
  /\ ~crashed /\ pc = "idle"
  /\ CHECK_not_initted
  /\ \E input \in callers : rowsets' = input
  /\ pc' = "loop" /\ idx' = 1 /\ ret' = NoStatus
  /\ entries' = << >> /\ unbounded' = << >> /\ endpoints' = << >>
  /\ UNCHANGED <<index, crashed, q, rd>>

\* Reset on an initialized tree: CHECK(!initted_) aborts the process, and
\* with it every caller's result vector
ResetFatal ==
  /\ ~crashed /\ pc = "idle"
  /\ ~CHECK_not_initted
  /\ crashed' = TRUE
  /\ q' = NoQuery /\ rd' = [r \in Readers |-> IdleReader]
  /\ UNCHANGED <<index, frame>>

PushUnbounded_dropped(v, rs) == v

PushUnbounded(v, rs) == Append(v, rs)

\* one iteration of the BOOST_FOREACH over rowsets
ResetLoop ==
  /\ ~crashed /\ pc = "loop" /\ idx <= Len(rowsets)
  /\ LET rs == rowsets[idx]
         b  == GetBounds(rs)
         s  == b.status
     IN  IF IsNotSupported(s)
         THEN /\ unbounded' = PushUnbounded(unbounded, rs)
              /\ idx' = idx + 1
              /\ UNCHANGED <<pc, entries, endpoints, ret>>
         ELSE IF ~ok(s)
         THEN \* return s: the ElementDeleter frees the entries built so far
              /\ pc' = "idle" /\ ret' = s
              /\ idx' = 1
              /\ entries' = << >> /\ unbounded' = << >> /\ endpoints' = << >>
         ELSE /\ endpoints' = endpoints \o
                   <<[rowset_ |-> rs, endpoint_ |-> "START", slice_ |-> b.min_key],
                     [rowset_ |-> rs, endpoint_ |-> "STOP", slice_ |-> b.max_key]>>
              /\ entries' = Append(entries,
                   [rowset |-> rs, min_key |-> b.min_key, max_key |-> b.max_key])
              /\ idx' = idx + 1
              /\ UNCHANGED <<pc, unbounded, ret>>
  /\ UNCHANGED <<index, rowsets, crashed, q, rd>>

\* std::sort(endpoints.begin(), endpoints.end(), RSEndpointBySliceCompare)
ResetSort ==
  /\ ~crashed /\ pc = "loop" /\ idx > Len(rowsets)
  /\ endpoints' \in std_sort(endpoints)
  /\ pc' = "L103"
  /\ UNCHANGED <<index, rowsets, idx, entries, unbounded, ret,
                 crashed, q, rd>>

\* entries_.swap(entries)
ResetL103_initted_first ==
  /\ ~crashed /\ pc = "L103"
  /\ entries_' = entries /\ entries' = entries_
  /\ initted_' = TRUE
  /\ pc' = "L104"
  /\ UNCHANGED <<unbounded_rowsets_, tree_, key_endpoints_,
                 all_rowsets_, rowsets, idx, unbounded, endpoints, ret,
                 crashed, q, rd>>

ResetL103 ==
  /\ ~crashed /\ pc = "L103"
  /\ entries_' = entries /\ entries' = entries_
  /\ pc' = "L104"
  /\ UNCHANGED <<initted_, unbounded_rowsets_, tree_, key_endpoints_,
                 all_rowsets_, rowsets, idx, unbounded, endpoints, ret,
                 crashed, q, rd>>

\* unbounded_rowsets_.swap(unbounded)
ResetL104 ==
  /\ ~crashed /\ pc = "L104"
  /\ unbounded_rowsets_' = unbounded /\ unbounded' = unbounded_rowsets_
  /\ pc' = "L105"
  /\ UNCHANGED <<initted_, entries_, tree_, key_endpoints_,
                 all_rowsets_, rowsets, idx, entries, endpoints, ret,
                 crashed, q, rd>>

TreeSource == entries_

\* tree_.reset(new IntervalTree<RowSetIntervalTraits>(entries_))
ResetL105 ==
  /\ ~crashed /\ pc = "L105"
  /\ tree_' = IntervalTree(TreeSource)
  /\ pc' = "L106"
  /\ UNCHANGED <<initted_, entries_, unbounded_rowsets_,
                 key_endpoints_, all_rowsets_, rowsets, idx, entries,
                 unbounded, endpoints, ret, crashed, q, rd>>

\* key_endpoints_.swap(endpoints)
ResetL106 ==
  /\ ~crashed /\ pc = "L106"
  /\ key_endpoints_' = endpoints /\ endpoints' = key_endpoints_
  /\ pc' = "L107"
  /\ UNCHANGED <<initted_, entries_, unbounded_rowsets_, tree_,
                 all_rowsets_, rowsets, idx, entries, unbounded, ret,
                 crashed, q, rd>>

\* all_rowsets_.assign(rowsets.begin(), rowsets.end())
ResetL107 ==
  /\ ~crashed /\ pc = "L107"
  /\ all_rowsets_' = rowsets
  /\ pc' = "L108"
  /\ UNCHANGED <<initted_, entries_, unbounded_rowsets_, tree_,
                 key_endpoints_, rowsets, idx, entries, unbounded, endpoints,
                 ret, crashed, q, rd>>

\* initted_ = true; return Status::OK() (the locals are destroyed)
ResetL108 ==
  /\ ~crashed /\ pc = "L108"
  /\ initted_' = TRUE
  /\ pc' = "idle" /\ ret' = OkStatus
  /\ idx' = 1
  /\ entries' = << >> /\ unbounded' = << >> /\ endpoints' = << >>
  /\ UNCHANGED <<entries_, unbounded_rowsets_, tree_, key_endpoints_,
                 all_rowsets_, rowsets, crashed, q, rd>>

Reset(callers) ==
  \/ ResetCall(callers) \/ ResetFatal \/ ResetLoop \/ ResetSort
  \/ ResetL103 \/ ResetL104 \/ ResetL105 \/ ResetL106 \/ ResetL107 \/ ResetL108

\* ---------------------------------------------------------------- queries
\* the query interval built from the two bounds
MakeQuery_lower_twice(lower_bound, upper_bound) ==
  [rowset |-> 0, min_key |-> lower_bound, max_key |-> lower_bound]

MakeQuery(lower_bound, upper_bound) ==
  [rowset |-> 0, min_key |-> lower_bound, max_key |-> upper_bound]

\* BOOST_FOREACH(rs, unbounded_rowsets_) rowsets->push_back(rs.get())
AppendUnbounded_skipped(out, unb) == out

AppendUnbounded(out, unb) == out \o unb

\* BOOST_FOREACH(rs, from_tree) rowsets->push_back(rs->rowset)
PushFromTree_twice(out, from_tree) ==
  out \o [i \in 1..(2 * Len(from_tree)) |-> from_tree[(i + 1) \div 2].rowset]

PushFromTree(out, from_tree) ==
  out \o [i \in 1..Len(from_tree) |-> from_tree[i].rowset]

\* the vectors FindRowSetsWithKeyInRange can leave in an empty *rowsets
FindRowSetsWithKeyInRange(encoded_key) ==
  {PushFromTree(AppendUnbounded(<< >>, unbounded_rowsets_), from_tree) :
     from_tree \in FindContainingPoint(tree_, encoded_key)}

\* the vectors FindRowSetsIntersectingInterval can leave in an empty *rowsets
FindRowSetsIntersectingInterval(lower_bound, upper_bound) ==
  {PushFromTree(AppendUnbounded(<< >>, unbounded_rowsets_), from_tree) :
     from_tree \in FindIntersectingInterval(tree_, MakeQuery(lower_bound, upper_bound))}

\* a point query by the single-threaded caller, into an empty vector
QueryPoint ==
  /\ ~crashed /\ pc = "idle" /\ initted_ /\ q = NoQuery
  /\ \E k \in Keys : \E out \in FindRowSetsWithKeyInRange(k) :
       q' = [op |-> "point", lo |-> k, hi |-> k, out |-> out]
  /\ UNCHANGED <<index, frame, crashed, rd>>

\* a range query (lower_bound <= upper_bound) by the single-threaded
\* caller, into an empty vector
QueryRange ==
  /\ ~crashed /\ pc = "idle" /\ initted_ /\ q = NoQuery
  /\ \E lo \in Keys : \E hi \in {k \in Keys : compare(lo, k) <= 0} :
       \E out \in FindRowSetsIntersectingInterval(lo, hi) :
         q' = [op |-> "range", lo |-> lo, hi |-> hi, out |-> out]
  /\ UNCHANGED <<index, frame, crashed, rd>>

\* the caller is done with the result vector of its query
QueryDone ==
  /\ ~crashed /\ q # NoQuery
  /\ q' = NoQuery
  /\ UNCHANGED <<index, frame, crashed, rd>>

\* a query on a tree that is not initialized: DCHECK(initted_) aborts
\* (where DCHECKs are compiled out, the call runs into the null tree_)
QueryUninitialized ==
  /\ ~crashed /\ ~initted_
  /\ crashed' = TRUE
  /\ q' = NoQuery /\ rd' = [r \in Readers |-> IdleReader]
  /\ UNCHANGED <<index, frame>>

Next ==
  \/ Reset(RowSetVectors)
  \/ QueryPoint \/ QueryRange \/ QueryDone \/ QueryUninitialized

Spec == Init /\ [][Next]_vars

\* --------------------------------------------------------- reader threads
\* the arguments a reader can call a query with
QueryArgs ==
  {[op |-> "point", lo |-> k, hi |-> k] : k \in Keys}
  \cup {[op |-> "range", lo |-> p[1], hi |-> p[2]] :
          p \in {k \in Keys \X Keys : compare(k[1], k[2]) <= 0}}

\* reader r enters a query (DCHECK(initted_) passes) and copies the
\* unbounded rowsets into its result vector
ReadUnbounded_drain(r) ==
  /\ ~crashed /\ initted_ /\ rd[r].pc = "idle"
  /\ \E a \in QueryArgs :
       rd' = [rd EXCEPT ![r] = [pc |-> "tree", op |-> a.op, lo |-> a.lo,
                hi |-> a.hi,
                out |-> AppendUnbounded(<< >>, unbounded_rowsets_)]]
  /\ unbounded_rowsets_' = << >>
  /\ UNCHANGED <<initted_, entries_, tree_, key_endpoints_,
                 all_rowsets_, frame, crashed, q>>

ReadUnbounded(r) ==
  /\ ~crashed /\ initted_ /\ rd[r].pc = "idle"
  /\ \E a \in QueryArgs :
       rd' = [rd EXCEPT ![r] = [pc |-> "tree", op |-> a.op, lo |-> a.lo,
                hi |-> a.hi,
                out |-> AppendUnbounded(<< >>, unbounded_rowsets_)]]
  /\ UNCHANGED <<index, frame, crashed, q>>

\* reader r queries tree_ and appends the rowsets of what it found
ReadTree(r) ==
  /\ ~crashed /\ rd[r].pc = "tree"
  /\ \E from_tree \in
         IF rd[r].op = "point"
         THEN FindContainingPoint(tree_, rd[r].lo)
         ELSE FindIntersectingInterval(tree_, MakeQuery(rd[r].lo, rd[r].hi)) :
       rd' = [rd EXCEPT ![r].pc = "done",
                        ![r].out = PushFromTree(rd[r].out, from_tree)]
  /\ UNCHANGED <<index, frame, crashed, q>>

\* reader r returns; its caller consumes the result vector
ReaderReturn(r) ==
  /\ ~crashed /\ rd[r].pc = "done"
  /\ rd' = [rd EXCEPT ![r] = IdleReader]
  /\ UNCHANGED <<index, frame, crashed, q>>

Reader == \E r \in Readers : ReadUnbounded(r) \/ ReadTree(r) \/ ReaderReturn(r)

\* the rowsets of the concurrent runs: a MemRowSet and a rowset covering
\* ["\0", "\0\1"]
ConcRowSets ==
  {rs \in RowSets :
     /\ rs.id = 1
     /\ \/ IsNotSupported(rs.bounds.status)
        \/ ok(rs.bounds.status) /\ rs.bounds.min_key = <<0>>
                                /\ rs.bounds.max_key = <<0, 1>>}

ConcVectors == UNION {VectorsOfLen(ConcRowSets, n) : n \in 0..MaxInput}

NextConc == Reset(ConcVectors) \/ Reader \/ QueryUninitialized

SpecConc == Init /\ [][NextConc]_vars

\* ----------------------------------------------------------------- claims
\* byte-lexicographic "a <= b", stated directly: a is a prefix of b, or a is
\* smaller at the first byte where they differ
LexLeq(a, b) ==
  \/ Len(a) <= Len(b) /\ \A i \in 1..Len(a) : a[i] = b[i]
  \/ \E i \in 1..Len(a) :
       /\ i <= Len(b) /\ a[i] < b[i]
       /\ \A j \in 1..(i - 1) : a[j] = b[j]

Bounded(rs)   == rs.bounds.status.code = "OK"
Unbounded(rs) == rs.bounds.status.code = "NotSupported"
Failing(rs)   == ~Bounded(rs) /\ ~Unbounded(rs)

EntryRowSets(es) == [i \in 1..Len(es) |-> es[i].rowset]

\* C1: after a successful Reset a bounded rowset of the input is in the
\* result of FindRowSetsWithKeyInRange(K) exactly when min <= K <= max in
\* byte-lexicographic order, [min, max] being the bounds it reported.
C1_PointContainment ==
  q.op = "point" =>
    \A rs \in Range(all_rowsets_) :
      Bounded(rs) =>
        ((rs \in Range(q.out)) <=>
           (LexLeq(rs.bounds.min_key, q.lo) /\ LexLeq(q.lo, rs.bounds.max_key)))

\* a point query that finds one bounded rowset and rules another one out
C1_Witness ==
  /\ q.op = "point"
  /\ \E a, b \in Range(all_rowsets_) :
       /\ Bounded(a) /\ Bounded(b)
       /\ a \in Range(q.out) /\ b \notin Range(q.out)

\* C2: after a successful Reset a bounded rowset of the input is in the
\* result of FindRowSetsIntersectingInterval(lo, hi), lo <= hi, exactly when
\* min <= hi and max >= lo (both ends inclusive).
C2_IntervalOverlap ==
  (q.op = "range" /\ LexLeq(q.lo, q.hi)) =>
    \A rs \in Range(all_rowsets_) :
      Bounded(rs) =>
        ((rs \in Range(q.out)) <=>
           (LexLeq(rs.bounds.min_key, q.hi) /\ LexLeq(q.lo, rs.bounds.max_key)))

\* a proper range that touches one rowset only at its upper bound and
\* misses another rowset
C2_Witness ==
  /\ q.op = "range" /\ q.lo # q.hi
  /\ \E a, b \in Range(all_rowsets_) :
       /\ Bounded(a) /\ Bounded(b)
       /\ a \in Range(q.out) /\ a.bounds.max_key = q.lo
       /\ b \notin Range(q.out)

\* C3: every point or range query on an initialized index returns every
\* rowset whose GetBounds answered NotSupported; with only unbounded rowsets
\* the result is the whole unbounded list, with no rowsets it is empty.
C3_UnboundedInclusion ==
  q.op # "none" =>
    /\ \A rs \in Range(all_rowsets_) : Unbounded(rs) => rs \in Range(q.out)
    /\ (\A rs \in Range(all_rowsets_) : Unbounded(rs)) =>
          \A rs \in RowSets : CountIn(q.out, rs) = CountIn(all_rowsets_, rs)
    /\ all_rowsets_ = << >> => q.out = << >>

\* a query that matches no bounded rowset still returns the unbounded one
C3_Witness ==
  /\ q.op # "none"
  /\ \E u, b \in Range(all_rowsets_) :
       /\ Unbounded(u) /\ Bounded(b)
       /\ u \in Range(q.out) /\ b \notin Range(q.out)

\* C4: after a successful Reset every rowset of the input is either among
\* the bounded entries (GetBounds succeeded) or in the unbounded list
\* (NotSupported), never both; the two hold as many elements as the input,
\* and all_rowsets_ is the input.
C4_Partition ==
  initted_ =>
    /\ \A rs \in Range(rowsets) :
         /\ (rs \in Range(EntryRowSets(entries_))) <=> Bounded(rs)
         /\ (rs \in Range(unbounded_rowsets_)) <=> Unbounded(rs)
         /\ (rs \in Range(EntryRowSets(entries_))) # (rs \in Range(unbounded_rowsets_))
    /\ \A rs \in RowSets :
         CountIn(EntryRowSets(entries_), rs) + CountIn(unbounded_rowsets_, rs)
           = CountIn(rowsets, rs)
    /\ Len(entries_) + Len(unbounded_rowsets_) = Len(rowsets)
    /\ all_rowsets_ = rowsets

\* a built index with both a bounded and an unbounded rowset
C4_Witness ==
  initted_ /\ Len(entries_) >= 1 /\ Len(unbounded_rowsets_) >= 1

\* C5: when GetBounds of some input rowset fails with an error other than
\* NotSupported, Reset returns the error of the first such rowset and the
\* index is as it was before the call: not initialized, nothing installed.
C5_FailFast ==
  (pc = "idle" /\ ret # NoStatus) =>
    LET bad == {i \in DOMAIN rowsets : Failing(rowsets[i])}
    IN  bad # {} =>
          /\ ret = [code |-> "IOError",
                    msg |-> rowsets[CHOOSE i \in bad : \A j \in bad : i <= j].id]
          /\ ~initted_
          /\ entries_ = << >> /\ unbounded_rowsets_ = << >>
          /\ key_endpoints_ = << >> /\ tree_ = NullTree
          /\ all_rowsets_ = << >>

\* Reset failed at its second rowset, after a bounded entry had been built
C5_Witness ==
  /\ pc = "idle" /\ ret.code = "IOError"
  /\ Len(rowsets) = 2 /\ Bounded(rowsets[1]) /\ Failing(rowsets[2])

\* C6: after a successful Reset key_endpoints_ is sorted ascending by key,
\* holds two endpoints per bounded entry, namely a START at the min_key and
\* a STOP at the max_key of each, and nothing of an unbounded rowset.
C6_EndpointsSorted ==
  initted_ =>
    /\ \A i, j \in DOMAIN key_endpoints_ :
         i < j => LexLeq(key_endpoints_[i].slice_, key_endpoints_[j].slice_)
    /\ Len(key_endpoints_) = 2 * Len(entries_)
    /\ Len(entries_) = Cardinality({i \in DOMAIN rowsets : Bounded(rowsets[i])})
    /\ \A rs \in RowSets :
         LET n == IF Bounded(rs) THEN CountIn(rowsets, rs) ELSE 0
         IN  /\ CountIn(key_endpoints_, [rowset_ |-> rs, endpoint_ |-> "START",
                                         slice_ |-> rs.bounds.min_key]) = n
             /\ CountIn(key_endpoints_, [rowset_ |-> rs, endpoint_ |-> "STOP",
                                         slice_ |-> rs.bounds.max_key]) = n
    /\ \A i \in DOMAIN key_endpoints_ : Bounded(key_endpoints_[i].rowset_)

\* the sort moved the second rowset's START in front of the first rowset's
C6_Witness ==
  /\ initted_ /\ Len(key_endpoints_) = 4
  /\ key_endpoints_[1].rowset_ # rowsets[1]
  /\ key_endpoints_[1].slice_ # key_endpoints_[4].slice_

\* C7: Reset succeeds at most once: on an initialized instance no step
\* enters Reset or changes initted_ or any owned artifact (the CHECK aborts
\* first); after a failed Reset the instance is still uninitialized and a
\* new Reset call is permitted.
C7_SingleInit ==
  [][ /\ initted_ =>
           /\ initted_' /\ pc' = "idle"
           /\ UNCHANGED <<entries_, unbounded_rowsets_, tree_, key_endpoints_,
                          all_rowsets_>>
      /\ (pc = "loop" /\ pc' = "idle") =>
           (~initted_' /\ ~crashed' /\ (ENABLED ResetCall(RowSetVectors))') ]_vars

\* a second Reset was aborted by the CHECK on an index holding entries
C7_Witness ==
  crashed /\ initted_ /\ Len(all_rowsets_) >= 1

\* C8 as stated: the point query never returns the same rowset twice.
C8_NoDuplicates ==
  q.op = "point" => \A rs \in RowSets : CountIn(q.out, rs) <= 1

\* C8 amended: the point query returns a rowset as many times as the list
\* given to Reset holds it, or not at all; so no rowset comes twice when the
\* input holds no rowset twice.
C8_AsOftenAsInInput ==
  q.op = "point" =>
    \A rs \in RowSets :
      CountIn(q.out, rs) = IF rs \in Range(q.out) THEN CountIn(all_rowsets_, rs) ELSE 0

\* two distinct rowsets in the input, both returned once
C8_Witness ==
  /\ q.op = "point" /\ Len(all_rowsets_) = 2
  /\ all_rowsets_[1] # all_rowsets_[2]
  /\ Len(q.out) = 2 /\ Bounded(q.out[2])

\* the results a call with the arguments of record a has when run alone
Alone(a) ==
  IF a.op = "point" THEN FindRowSetsWithKeyInRange(a.lo)
  ELSE FindRowSetsIntersectingInterval(a.lo, a.hi)

\* C9: with readers running the two queries concurrently, no step of a
\* reader changes initted_ or an owned artifact, and every finished call
\* holds a result the same call has when run alone on the index.
C9_ReadersPure ==
  /\ [](\A r \in Readers : rd[r].pc = "done" => rd[r].out \in Alone(rd[r]))
  /\ [][rd' # rd => UNCHANGED index]_vars

\* one reader is between its two steps while another has finished
C9_Witness ==
  \E r1, r2 \in Readers :
    /\ rd[r1].pc = "tree" /\ rd[r2].pc = "done"
    /\ rd[r1].op # rd[r2].op
    /\ Len(rd[r2].out) = 2

ExpectedEntries(in) ==
  LET b == SelectSeq(in, Bounded)
  IN  [i \in 1..Len(b) |-> [rowset |-> b[i], min_key |-> b[i].bounds.min_key,
                            max_key |-> b[i].bounds.max_key]]

\* C10: in every state, the ones between the installation steps of Reset
\* included, initted_ holds only when entries_, unbounded_rowsets_, tree_,
\* key_endpoints_ and all_rowsets_ are all installed from the one input;
\* while Reset installs them initted_ is still false.
C10_InittedLast ==
  /\ pc \in {"loop", "L103", "L104", "L105", "L106", "L107", "L108"} => ~initted_
  /\ initted_ =>
       /\ entries_ = ExpectedEntries(rowsets)
       /\ unbounded_rowsets_ = SelectSeq(rowsets, Unbounded)
       /\ tree_ = IntervalTree(entries_)
       /\ Len(key_endpoints_) = 2 * Len(entries_)
       /\ \A i \in DOMAIN entries_ :
            \E j, k \in DOMAIN key_endpoints_ :
              /\ key_endpoints_[j] = [rowset_ |-> entries_[i].rowset,
                   endpoint_ |-> "START", slice_ |-> entries_[i].min_key]
              /\ key_endpoints_[k] = [rowset_ |-> entries_[i].rowset,
                   endpoint_ |-> "STOP", slice_ |-> entries_[i].max_key]
       /\ all_rowsets_ = rowsets

\* entries and tree are installed, the endpoints are not, initted_ is false
C10_Witness ==
  /\ pc = "L106" /\ ~initted_
  /\ entries_ # << >> /\ tree_.built /\ key_endpoints_ = << >>

====
